---------------------------- MODULE Spec2Model ----------------------------
(***************************************************************************)
(* Session / correlation engine of the supplier bot                        *)
(* (products/management/commands/runserver_and_bot.py).                    *)
(*                                                                         *)
(* One action per inbound Telegram update.  An update is routed by         *)
(* Dispatch to the first registered handler whose filter matches it, and   *)
(* the action is the whole handler.  Chats are private, so a customer's    *)
(* chat id is their user id.  Message ids are unique per chat; the model   *)
(* numbers only the messages whose identifier the program uses later       *)
(* (product messages in a customer's chat, forwards and summaries in the   *)
(* operator's chat); every other message of a chat is OtherMsg.            *)
(*                                                                         *)
(* Telegram calls made inside a try block (forward, summary send, relay)   *)
(* either succeed or raise; all other calls are taken to succeed in Spec.  *)
(*                                                                         *)
(* The catalog comes from products/sheets_service.py.  In Spec the sheet   *)
(* is fixed, the source is reachable and no time passes; CatalogSpec runs  *)
(* the service against a source that fails, a sheet that is edited and a   *)
(* clock that advances; ParseSpec applies the row parser to bounded        *)
(* sheets; StoreSpec applies record and the operator's lookup to bounded   *)
(* message and customer identifiers.                                       *)
(***************************************************************************)
EXTENDS Integers, Sequences, FiniteSets, TLC

VARIABLES
    admin_chat_id,            \* settings.TELEGRAM_ADMIN_CHAT_ID
    user_data,                \* context.user_data, one bag per user
    profiles,                 \* rows of the UserProfile table
    admin_customer_mapping,   \* context.bot_data['admin_customer_mapping']
    product_msgs,             \* per chat: product messages with a live order button
    next_message_id,          \* per chat: id of the next product message
    prompts,                  \* per chat: live decision prompts, by product that led to them
    cancel_msgs,              \* per chat: dialog prompts with a live cancel button
    admin_chat,               \* forwards and summaries delivered to the operator's chat
    dialog_origin,            \* per user: product whose press led to the current dialog
    flow,                     \* per user: observer of press + three answers
    last,                     \* the update handled last and what its handler did
    clock,                    \* number of updates handled so far
    sheets_service,           \* the GoogleSheetsService singleton: cache, timestamp, worksheet
    sheet,                    \* the external worksheet: header row and data rows
    source,                   \* whether the external source answers
    now,                      \* datetime.now(), in minutes
    call,                     \* the service call made last and what it did
    image_fetch,              \* per item: what downloading its image gives
    profile_store,            \* whether the profile database answers
    running,                  \* the updates whose handler has started and not ended
    entered                   \* per user: the texts the dialog took since it last asked the name

vars == <<admin_chat_id, user_data, profiles, admin_customer_mapping, product_msgs,
          next_message_id, prompts, cancel_msgs, admin_chat, dialog_origin, flow, last, clock,
          sheets_service, sheet, source, now, call,
          image_fetch, profile_store, running, entered>>

bot_vars == <<admin_chat_id, user_data, profiles, admin_customer_mapping, product_msgs,
              next_message_id, prompts, cancel_msgs, admin_chat, dialog_origin, flow, last, clock,
              image_fetch, profile_store, running, entered>>

-----------------------------------------------------------------------------
(* Bounds *)

MaxEvents == 5
MaxMsgId == 2
MaxListing == 2
MaxCancelMsgs == 1
MaxAdminMsgs == 4
MaxTime == 6
MaxRows == 2
MaxStoreIds == 2

-----------------------------------------------------------------------------
(* Values *)

None == -1
NoText == "None"

Users == {1, 2}
AdminId == 3
Senders == Users \cup {AdminId}

IN_STOCK_LABEL == "In-Stock label"
PRE_ORDER_LABEL == "Pre-Order label"
Texts == {IN_STOCK_LABEL, PRE_ORDER_LABEL, "Mg Mg"}

OtherMsg == MaxAdminMsgs + MaxMsgId + 1

\* Python truthiness of an identifier (None and 0 are falsy) and of a flag
TruthyId(x) == x # None /\ x # 0
TruthyFlag(x) == x = "True"

EmptyUserData ==
    [collecting_info |-> NoText, info_step |-> NoText,
     user_name |-> NoText, user_phone |-> NoText, user_address |-> NoText,
     order_product_message_id |-> None, order_product_chat_id |-> None]

NoProfile == [telegram_id |-> None, name |-> NoText, phone |-> NoText, address |-> NoText]

SavedProfile(u) == [telegram_id |-> u, name |-> "Mg Mg", phone |-> "Mg Mg", address |-> "Mg Mg"]

Msg(kind, to, ref, from, text) ==
    [kind |-> kind, to |-> to, ref |-> ref, from |-> from, text |-> text]

Mode(s) ==
    IF TruthyFlag(s.collecting_info) /\ s.info_step = "name" THEN "CollectingName"
    ELSE IF TruthyFlag(s.collecting_info) /\ s.info_step = "phone" THEN "CollectingPhone"
    ELSE IF TruthyFlag(s.collecting_info) /\ s.info_step = "address" THEN "CollectingAddress"
    ELSE "Idle"

Collecting == {"CollectingName", "CollectingPhone", "CollectingAddress"}

-----------------------------------------------------------------------------
(* The catalog source and its cache: products/sheets_service.py *)

MinColumns == 13
cache_duration == 5

KnownStatuses == {"In-Stock", "On The Way"}

\* str.strip() on the cell values the model uses
Strip(cell) ==
    CASE cell = " " -> ""
      [] cell = " In-Stock " -> "In-Stock"
      [] OTHER -> cell

\* A worksheet row: its number of cells, cell B (item name), cell M (status)
Row(len, name, status) == [len |-> len, name |-> name, status |-> status]

Header == Row(14, "Item Name", "Status")

Product(row) == [name |-> Strip(row.name), status |-> Strip(row.status)]

\* {} and {'In-Stock': [], 'On The Way': []}
NoGroups == <<>>
EmptyGroups == [st \in KnownStatuses |-> <<>>]

EnoughColumns_offByOne(row) == row.len > MinColumns

EnoughColumns(row) == ~(row.len < MinColumns)

\* The loop over all_records[1:]
RECURSIVE ParseRows(_, _)
ParseRows(rows, products_by_status) ==
    IF rows = <<>> THEN products_by_status
    ELSE LET row == Head(rows)
             item_name == Strip(row.name)
             item_status == Strip(row.status)
         IN  IF ~EnoughColumns(row) THEN ParseRows(Tail(rows), products_by_status)
             ELSE IF item_name = "" THEN ParseRows(Tail(rows), products_by_status)
             ELSE IF item_status \in DOMAIN products_by_status
             THEN ParseRows(Tail(rows),
                            [products_by_status EXCEPT ![item_status] = Append(@, Product(row))])
             ELSE ParseRows(Tail(rows), products_by_status)

\* What _fetch_all_products returns: a dict, or [] from the except clause
Dict(groups) == [kind |-> "dict", groups |-> groups]
EmptyList == [kind |-> "list", groups |-> NoGroups]

TruthyValue(ret) == ret.kind = "dict" /\ ret.groups # NoGroups

fetch_all_products_partial(svc) ==
    IF ~svc.worksheet /\ source # "ok" THEN [ret |-> Dict(NoGroups), worksheet |-> FALSE]
    ELSE IF source # "ok" THEN [ret |-> Dict(EmptyGroups), worksheet |-> TRUE]
    ELSE IF Len(sheet) <= 1 THEN [ret |-> Dict(NoGroups), worksheet |-> TRUE]
    ELSE [ret |-> Dict(ParseRows(Tail(sheet), EmptyGroups)), worksheet |-> TRUE]

\* _fetch_all_products: connect() when there is no worksheet yet, read all
\* values, parse; {} when the connection fails or the sheet has no data row,
\* [] when reading raises
fetch_all_products(svc) ==
    IF ~svc.worksheet /\ source # "ok" THEN [ret |-> Dict(NoGroups), worksheet |-> FALSE]
    ELSE IF source # "ok" THEN [ret |-> EmptyList, worksheet |-> TRUE]
    ELSE IF Len(sheet) <= 1 THEN [ret |-> Dict(NoGroups), worksheet |-> TRUE]
    ELSE [ret |-> Dict(ParseRows(Tail(sheet), EmptyGroups)), worksheet |-> TRUE]

is_cache_valid_inclusive(svc) ==
    IF svc.cache_timestamp = None THEN FALSE
    ELSE now - svc.cache_timestamp <= cache_duration

is_cache_valid(svc) ==
    IF svc.cache_timestamp = None THEN FALSE
    ELSE now - svc.cache_timestamp < cache_duration

\* A refetch replaces cache and timestamp when the fetch returned entries and
\* leaves both as they were when it returned nothing
Refetch(svc) ==
    LET f == fetch_all_products(svc)
    IN  IF TruthyValue(f.ret)
        THEN [cache |-> f.ret.groups, cache_timestamp |-> now, worksheet |-> f.worksheet]
        ELSE [svc EXCEPT !.worksheet = f.worksheet]

get_products_by_status(svc, status) ==
    LET valid == is_cache_valid(svc)
        svc1 == IF valid THEN svc ELSE Refetch(svc)
    IN  [svc |-> svc1, fetches |-> IF valid THEN 0 ELSE 1,
         products |-> IF status \in DOMAIN svc1.cache THEN svc1.cache[status] ELSE <<>>]

\* sheets_service.refresh_cache(): refetch whatever the age of the cache
force_refresh(svc) == [svc |-> Refetch(svc), fetches |-> 1, products |-> <<>>]

NewService == [cache |-> NoGroups, cache_timestamp |-> None, worksheet |-> FALSE]

\* The record of a service call: what was asked, the service before it and
\* the time it was made, the fetches it made, whether a fetch found the
\* source down, and what it returned
NoCall == [op |-> "none", status |-> NoText, before |-> NewService, at |-> 0,
           fetches |-> 0, failed |-> FALSE, products |-> <<>>, ret |-> Dict(NoGroups)]

-----------------------------------------------------------------------------
(* Updates and their routing *)

Upd(kind, user, text, reply_to, data, message_id, origin) ==
    [kind |-> kind, user |-> user, text |-> text, reply_to |-> reply_to,
     data |-> data, message_id |-> message_id, origin |-> origin]

NoUpd == Upd("none", None, NoText, None, NoText, None, None)

\* The handlers in registration order, each with the filter it was registered with
Handlers ==
    << [name |-> "start",                 kinds |-> {"command"},         text |-> {"/start"},   reply |-> FALSE],
       [name |-> "refresh_cache",         kinds |-> {"command"},         text |-> {"/refresh"}, reply |-> FALSE],
       [name |-> "handle_message",        kinds |-> {"text"},            text |-> {},           reply |-> FALSE],
       [name |-> "handle_order_callback", kinds |-> {"callback"},        text |-> {},           reply |-> FALSE],
       [name |-> "handle_admin_reply",    kinds |-> {"text", "command", "media"}, text |-> {},  reply |-> TRUE] >>

Matches(h, upd) ==
    /\ upd.kind \in h.kinds
    /\ h.text # {} => upd.text \in h.text
    /\ h.reply => upd.reply_to # None

\* Within one group the first handler whose filter matches handles the update
HandlerFor(upd) ==
    LET hits == {i \in DOMAIN Handlers : Matches(Handlers[i], upd)}
    IN  IF hits = {} THEN "none"
        ELSE Handlers[CHOOSE i \in hits : \A j \in hits : i <= j].name

-----------------------------------------------------------------------------
(* What a handler leaves behind for the user u it ran for *)

Same(u) ==
    [s |-> user_data[u], profiles |-> profiles, mapping |-> admin_customer_mapping,
     admin_chat |-> admin_chat, product_msgs |-> product_msgs[u],
     next |-> next_message_id[u], prompts |-> prompts[u], cancel |-> cancel_msgs[u],
     origin |-> dialog_origin[u], out |-> <<>>, upserts |-> <<>>, ok |-> TRUE,
     svc |-> sheets_service, fetches |-> 0, raised |-> FALSE]

AddCancelMsg(n) == IF n < MaxCancelMsgs THEN n + 1 ELSE n

ProfileOf(rows, id) ==
    IF \E r \in rows : r.telegram_id = id
    THEN CHOOSE r \in rows : r.telegram_id = id
    ELSE NoProfile

UpdateOrCreate(rows, row) ==
    {r \in rows : r.telegram_id # row.telegram_id} \cup {row}

-----------------------------------------------------------------------------
(* send_order_to_admin *)

RecordMapping_fresh(mapping, message_id, user_profile) ==
    (message_id :> user_profile.telegram_id)

RecordMapping_keepsFirst(mapping, message_id, user_profile) ==
    mapping @@ (message_id :> user_profile.telegram_id)

RecordMapping_perCustomer(mapping, message_id, user_profile) ==
    LET kept == {k \in DOMAIN mapping : mapping[k] # user_profile.telegram_id}
    IN  (message_id :> user_profile.telegram_id) @@ [k \in kept |-> mapping[k]]

RecordMapping(mapping, message_id, user_profile) ==
    (message_id :> user_profile.telegram_id) @@ mapping

PopOrderContext(s) ==
    [s EXCEPT !.order_product_message_id = None, !.order_product_chat_id = None]

ErrorContact_toOperator(chat_id) == Msg("error_contact", admin_chat_id, None, None, NoText)

ErrorContact(chat_id) == Msg("error_contact", chat_id, None, None, NoText)

NoAdminChat_never == FALSE

\* if not admin_chat_id
NoAdminChat == ~TruthyId(admin_chat_id)

send_order_to_admin(r, user_profile, chat_id, trigger, fwd_ok, sum_ok) ==
    IF NoAdminChat
    THEN [r EXCEPT !.out = r.out \o <<Msg("contact_instruction", chat_id, None, None, NoText)>>]
    ELSE
      LET product_msg_id == r.s.order_product_message_id
          product_chat_id == r.s.order_product_chat_id
          forwards == TruthyId(product_msg_id) /\ TruthyId(product_chat_id)
      IN
      IF forwards /\ ~fwd_ok
      THEN [r EXCEPT !.out = r.out \o <<ErrorContact(chat_id)>>, !.ok = FALSE]
      ELSE
        LET r1 == IF forwards
                  THEN [r EXCEPT
                          !.admin_chat = Append(r.admin_chat, [kind |-> "forward", trigger |-> trigger]),
                          !.out = r.out \o <<Msg("forward", admin_chat_id, product_msg_id,
                                                 product_chat_id, NoText)>>]
                  ELSE r
            sent_message_id == Len(r1.admin_chat) + 1
        IN
        IF user_profile = NoProfile \/ ~sum_ok
        THEN [r1 EXCEPT !.out = r1.out \o <<ErrorContact(chat_id)>>, !.ok = FALSE]
        ELSE [r1 EXCEPT
                !.admin_chat = Append(r1.admin_chat, [kind |-> "summary", trigger |-> trigger]),
                !.out = r1.out \o <<Msg("summary", admin_chat_id, sent_message_id,
                                        user_profile.telegram_id, user_profile.name)>>,
                !.mapping = RecordMapping(r1.mapping, sent_message_id, user_profile),
                !.s = PopOrderContext(r1.s)]

AdminChatHasRoom == ~TruthyId(admin_chat_id) \/ Len(admin_chat) + 2 <= MaxAdminMsgs

-----------------------------------------------------------------------------
(* handle_message *)

IsCollecting_unlessLabel(s, text) ==
    TruthyFlag(s.collecting_info) /\ text \notin {IN_STOCK_LABEL, PRE_ORDER_LABEL}

\* if context.user_data.get('collecting_info'): tested before the text is
\* compared with the browse labels
IsCollecting(s, text) == TruthyFlag(s.collecting_info)

StoreName_keepsOld(s, text) == [s EXCEPT !.info_step = "phone"]

StoreName(s, text) == [s EXCEPT !.user_name = text, !.info_step = "phone"]

StorePhone(s, text) == [s EXCEPT !.user_phone = text, !.info_step = "address"]

StoreAddress(s, text) ==
    [s EXCEPT !.user_address = text, !.info_step = NoText, !.collecting_info = "False"]

ProfileDefaults_swapped(user_id, s) ==
    [telegram_id |-> user_id, name |-> s.user_phone, phone |-> s.user_name,
     address |-> s.user_address]

\* A call that is in no try block fails: the exception leaves the handler
\* with what the handler did before it
Raised(r) == [r EXCEPT !.raised = TRUE]

\* UserProfile.objects calls succeed when the database answers
StoreAnswers == profile_store = "ok"

\* The row written by update_or_create: the key and the defaults
ProfileDefaults(user_id, s) ==
    [telegram_id |-> user_id, name |-> s.user_name, phone |-> s.user_phone,
     address |-> s.user_address]

\* What downloading an item's image gives: the picture, a status other
\* than 200, no answer within the timeout; or the row has no image link
ImageOutcomes == {"ok", "non200", "timeout", "no_url"}

send_product_details_dropsFailed(product, chat_id, message_id) ==
    IF image_fetch[product.name] \in {"non200", "timeout"}
    THEN Msg("error_loading", chat_id, None, None, product.name)
    ELSE Msg("product", chat_id, message_id, None, product.name)

\* One message per product, each with the order button (ref is the message
\* the button hangs on): the photo with its caption when the download
\* answered 200, the caption as text otherwise
send_product_details(product, chat_id, message_id) ==
    IF image_fetch[product.name] = "ok"
    THEN Msg("product", chat_id, message_id, None, product.name)
    ELSE Msg("product_text", chat_id, message_id, None, product.name)

SentCount_short(products) == Len(products) - 1

\* The count the closing message states
SentCount(products) == Len(products)

send_products(r, chat_id, status) ==
    LET g == get_products_by_status(r.svc, status)
        n == Len(g.products)
        sent == [i \in 1..n |-> send_product_details(g.products[i], chat_id, r.next + i - 1)]
    IN
    IF n = 0
    THEN [r EXCEPT !.svc = g.svc, !.fetches = g.fetches,
                   !.out = <<Msg("none_available", chat_id, None, None, status)>>]
    ELSE [r EXCEPT
            !.svc = g.svc, !.fetches = g.fetches,
            !.product_msgs = (r.product_msgs \cup {sent[i].ref : i \in 1..n}) \ {None},
            !.next = r.next + n,
            !.out = <<Msg("loading", chat_id, None, None, status)>>
                    \o sent
                    \o <<Msg("sent_count", chat_id, SentCount(g.products), None, status)>>]

handle_message(upd, fwd_ok, sum_ok) ==
    LET text == upd.text
        user_id == upd.user
        chat_id == upd.user
        r == Same(user_id)
        step == r.s.info_step
    IN
    IF IsCollecting(r.s, text) /\ step = "name"
    THEN [r EXCEPT !.s = StoreName(r.s, text),
                   !.cancel = AddCancelMsg(r.cancel),
                   !.out = <<Msg("ask_phone", chat_id, None, None, NoText)>>]
    ELSE IF IsCollecting(r.s, text) /\ step = "phone"
    THEN [r EXCEPT !.s = StorePhone(r.s, text),
                   !.cancel = AddCancelMsg(r.cancel),
                   !.out = <<Msg("ask_address", chat_id, None, None, NoText)>>]
    ELSE IF IsCollecting(r.s, text) /\ step = "address"
    THEN LET s1 == StoreAddress(r.s, text)
             row == ProfileDefaults(user_id, s1)
             r1 == [r EXCEPT !.s = s1,
                             !.origin = None,
                             !.profiles = UpdateOrCreate(r.profiles, row),
                             !.upserts = <<row>>]
             r2 == send_order_to_admin(r1, row, chat_id, user_id, fwd_ok, sum_ok)
         IN  IF ~StoreAnswers
             THEN Raised([r EXCEPT !.s = s1, !.origin = None])
             ELSE [r2 EXCEPT !.out = r2.out \o <<Msg("order_done", chat_id, None, None, NoText)>>]
    ELSE IF text = IN_STOCK_LABEL THEN send_products(r, chat_id, "In-Stock")
    ELSE IF text = PRE_ORDER_LABEL THEN send_products(r, chat_id, "On The Way")
    ELSE [r EXCEPT !.out = <<Msg("use_buttons", chat_id, None, None, NoText)>>]

-----------------------------------------------------------------------------
(* refresh_cache: the /refresh command *)

RefreshRejected_everyone(user_id) == TRUE

\* if admin_chat_id and str(user.id) != str(admin_chat_id)
RefreshRejected(user_id) == TruthyId(admin_chat_id) /\ user_id # admin_chat_id

refresh_cache(upd) ==
    LET user_id == upd.user
        chat_id == upd.user
        r == Same(user_id)
    IN
    IF RefreshRejected(user_id)
    THEN [r EXCEPT !.out = <<Msg("only_admin", chat_id, None, None, NoText)>>]
    ELSE LET g == force_refresh(r.svc)
         IN  [r EXCEPT !.svc = g.svc, !.fetches = g.fetches,
                       !.out = <<Msg("refreshing", chat_id, None, None, NoText),
                                 Msg("refreshed", chat_id, None, None, NoText)>>]

-----------------------------------------------------------------------------
(* handle_order_callback *)

StartCollecting_noStep(s) == [s EXCEPT !.collecting_info = "True"]

StartCollecting(s) == [s EXCEPT !.collecting_info = "True", !.info_step = "name"]

CancelInfo_keepsStep(s) ==
    PopOrderContext([s EXCEPT !.collecting_info = "True"])

CancelInfo(s) ==
    PopOrderContext([s EXCEPT !.collecting_info = "False", !.info_step = NoText])

StoreOrderContext_noMessage(s, message_id, chat_id) ==
    [s EXCEPT !.order_product_chat_id = chat_id]

StoreOrderContext(s, message_id, chat_id) ==
    [s EXCEPT !.order_product_message_id = message_id, !.order_product_chat_id = chat_id]

\* After "use_saved_info": the session as the branch leaves it
AfterUseSavedInfo(s) == s

handle_order_callback(upd, fwd_ok, sum_ok) ==
    LET user_id == upd.user
        chat_id == upd.user
        r == Same(user_id)
        user_profile == ProfileOf(r.profiles, user_id)
    IN
    IF ~StoreAnswers /\ upd.data \notin {"update_info", "cancel_info"}
    THEN Raised(r)
    ELSE IF upd.data = "use_saved_info"
    THEN LET r1 == send_order_to_admin(r, user_profile, chat_id, user_id, fwd_ok, sum_ok)
         IN  [r1 EXCEPT !.s = AfterUseSavedInfo(r1.s),
                        !.prompts = r1.prompts \ {upd.origin},
                        !.out = r1.out \o <<Msg("edit_order_done", chat_id, None, None, NoText)>>]
    ELSE IF upd.data = "update_info"
    THEN [r EXCEPT !.s = StartCollecting(r.s),
                   !.prompts = r.prompts \ {upd.origin},
                   !.cancel = AddCancelMsg(r.cancel),
                   !.origin = upd.origin,
                   !.out = <<Msg("edit_ask_name", chat_id, None, None, NoText)>>]
    ELSE IF upd.data = "cancel_info"
    THEN [r EXCEPT !.s = CancelInfo(r.s),
                   !.prompts = r.prompts \ {upd.origin},
                   !.cancel = IF upd.origin = None THEN r.cancel - 1 ELSE r.cancel,
                   !.out = <<Msg("edit_cancelled", chat_id, None, None, NoText)>>]
    ELSE LET s1 == StoreOrderContext(r.s, upd.message_id, chat_id)
         IN  IF user_profile # NoProfile
             THEN [r EXCEPT !.s = s1,
                            !.prompts = r.prompts \cup {upd.message_id},
                            !.out = <<Msg("profile_options", chat_id, None, None, user_profile.name)>>]
             ELSE [r EXCEPT !.s = StartCollecting(s1),
                            !.product_msgs = r.product_msgs \ {upd.message_id},
                            !.cancel = AddCancelMsg(r.cancel),
                            !.origin = upd.message_id,
                            !.out = <<Msg("ask_name", chat_id, None, None, NoText)>>]

-----------------------------------------------------------------------------
(* handle_admin_reply *)

IsFromAdmin_anyone(chat_id) == TRUE

IsFromAdmin(chat_id) == chat_id = admin_chat_id

LookupCustomer_nearest(mapping, replied_message_id) ==
    IF replied_message_id \in DOMAIN mapping THEN mapping[replied_message_id]
    ELSE IF DOMAIN mapping # {} THEN mapping[CHOOSE k \in DOMAIN mapping : TRUE]
    ELSE None

\* .get(replied_message_id): None when the id has no entry
LookupCustomer(mapping, replied_message_id) ==
    IF replied_message_id \in DOMAIN mapping THEN mapping[replied_message_id] ELSE None

CustomerFound(customer_id) == TruthyId(customer_id)

RelayFailed_confirmsToo(chat_id) ==
    << Msg("relay_sent", chat_id, None, None, NoText),
       Msg("relay_failed", chat_id, None, None, "str(e)") >>

\* The except clause: one notice to the operator, carrying str(e)
RelayFailed(chat_id) == << Msg("relay_failed", chat_id, None, None, "str(e)") >>

handle_admin_reply(upd, relay_ok) ==
    LET r == Same(upd.user)
        customer_id == LookupCustomer(r.mapping, upd.reply_to)
    IN
    IF ~IsFromAdmin(upd.user) THEN r
    ELSE IF upd.reply_to = None THEN r
    ELSE IF ~CustomerFound(customer_id)
    THEN [r EXCEPT !.out = <<Msg("customer_not_found", upd.user, None, None, NoText)>>]
    ELSE IF relay_ok
    THEN [r EXCEPT !.out = <<Msg("relay", customer_id, None, upd.user, upd.text),
                             Msg("relay_sent", upd.user, None, None, NoText)>>]
    ELSE [r EXCEPT !.out = RelayFailed(upd.user), !.ok = FALSE]

-----------------------------------------------------------------------------
(* Observer of one registration: an order press by an idle user without a  *)
(* profile, followed by that user's next three text messages               *)

NoFlow == [stage |-> 0, pressed |-> None, texts |-> <<>>, upserts |-> <<>>, out |-> <<>>, corr |-> {}, ok |-> TRUE]

NewEntries(res) ==
    {<<k, res.mapping[k]>> : k \in DOMAIN res.mapping \ DOMAIN admin_customer_mapping}

Track(f, upd, res) ==
    LET u == upd.user
        starts == /\ upd.kind = "callback" /\ upd.data = "order"
                  /\ ProfileOf(profiles, u) = NoProfile
                  /\ Mode(user_data[u]) = "Idle"
    IN
    IF starts
    THEN [stage |-> 1, pressed |-> upd.message_id, texts |-> <<>>, upserts |-> res.upserts, out |-> res.out,
          corr |-> NewEntries(res), ok |-> res.ok]
    ELSE IF upd.kind = "text" /\ f.stage \in 1..3
    THEN [stage |-> f.stage + 1, pressed |-> f.pressed, texts |-> Append(f.texts, upd.text),
          upserts |-> f.upserts \o res.upserts, out |-> f.out \o res.out,
          corr |-> f.corr \cup NewEntries(res), ok |-> f.ok /\ res.ok]
    ELSE NoFlow

-----------------------------------------------------------------------------
(* The dispatcher: one update, handled by the first matching handler *)

Run(upd, fwd_ok, sum_ok, relay_ok) ==
    LET h == HandlerFor(upd)
    IN  CASE h = "handle_message" -> handle_message(upd, fwd_ok, sum_ok)
          [] h = "handle_order_callback" -> handle_order_callback(upd, fwd_ok, sum_ok)
          [] h = "handle_admin_reply" -> handle_admin_reply(upd, relay_ok)
          [] h = "refresh_cache" -> refresh_cache(upd)
          [] OTHER -> Same(upd.user)

StoreSession_shared(u, s) == [v \in Senders |-> s]

\* context.user_data is the dictionary of the user the update comes from
StoreSession(u, s) == [user_data EXCEPT ![u] = s]

\* The texts the registration dialog has taken since it last asked for the
\* name: emptied when a handler asks for the name, extended by each text
\* handled while the session is collecting
Entered(e, upd, res) ==
    IF \E i \in DOMAIN res.out : res.out[i].kind \in {"ask_name", "edit_ask_name"}
    THEN <<>>
    ELSE IF upd.kind = "text" /\ Mode(user_data[upd.user]) \in Collecting
    THEN Append(e, upd.text)
    ELSE e

Dispatch(upd, fwd_ok, sum_ok, relay_ok) ==
    LET u == upd.user
    IN
    /\ clock < MaxEvents
    /\ \E res \in {Run(upd, fwd_ok, sum_ok, relay_ok)} :
         /\ clock' = clock + 1
         /\ user_data' = StoreSession(u, res.s)
         /\ profiles' = res.profiles
         /\ admin_customer_mapping' = res.mapping
         /\ admin_chat' = res.admin_chat
         /\ product_msgs' = [product_msgs EXCEPT ![u] = res.product_msgs]
         /\ next_message_id' = [next_message_id EXCEPT ![u] = res.next]
         /\ prompts' = [prompts EXCEPT ![u] = res.prompts]
         /\ cancel_msgs' = [cancel_msgs EXCEPT ![u] = res.cancel]
         /\ dialog_origin' = [dialog_origin EXCEPT ![u] = res.origin]
         /\ flow' = [flow EXCEPT ![u] = Track(flow[u], upd, res)]
         /\ last' = [upd |-> upd, handler |-> HandlerFor(upd), was |-> Mode(user_data[u]),
                     selected |-> IF upd.kind = "callback" THEN upd.origin ELSE dialog_origin[u],
                     out |-> res.out, upserts |-> res.upserts, ok |-> res.ok,
                     fetches |-> res.fetches, raised |-> res.raised]
         /\ sheets_service' = res.svc
         /\ entered' = [entered EXCEPT ![u] = Entered(entered[u], upd, res)]
    /\ running' = {inv \in running : inv # upd}
    /\ UNCHANGED <<admin_chat_id, sheet, source, now, call, image_fetch, profile_store>>

-----------------------------------------------------------------------------
(* Inbound updates *)

OperatorTexts == Texts \ {IN_STOCK_LABEL, PRE_ORDER_LABEL}

ReplyTargets == (1..Len(admin_chat)) \cup {OtherMsg}

Completes(u) == Mode(user_data[u]) = "CollectingAddress"

\* Outcomes of the calls made in send_order_to_admin's try block
SendOutcomes(sends) == IF sends /\ TruthyId(admin_chat_id) THEN BOOLEAN ELSE {TRUE}

StatusOf(text) == IF text = IN_STOCK_LABEL THEN "In-Stock" ELSE "On The Way"

\* Number of products a browse of this status lists now
Listed(status) == Len(get_products_by_status(sheets_service, status).products)

Browses(u, text) ==
    Mode(user_data[u]) = "Idle" /\ text \in {IN_STOCK_LABEL, PRE_ORDER_LABEL}

CustomerText ==
    \E u \in Users, text \in Texts :
      \E fwd_ok \in SendOutcomes(Completes(u)), sum_ok \in SendOutcomes(Completes(u)) :
        /\ Completes(u) => AdminChatHasRoom
        /\ Browses(u, text) =>
             next_message_id[u] + Listed(StatusOf(text)) - 1 <= MaxMsgId
        /\ fwd_ok \/ sum_ok
        /\ Dispatch(Upd("text", u, text, None, NoText, None, None), fwd_ok, sum_ok, TRUE)

OperatorTextReply ==
    \E text \in OperatorTexts, reply_to \in ReplyTargets :
      Dispatch(Upd("text", AdminId, text, reply_to, NoText, None, None), TRUE, TRUE, TRUE)

MediaReply ==
    \E u \in Senders, reply_to \in ReplyTargets, relay_ok \in BOOLEAN :
      /\ u \in Users => reply_to \in DOMAIN admin_customer_mapping \cup {OtherMsg}
      /\ relay_ok \/ (u = admin_chat_id /\ reply_to \in DOMAIN admin_customer_mapping)
      /\ Dispatch(Upd("media", u, NoText, reply_to, NoText, None, None), TRUE, TRUE, relay_ok)

RefreshCommand ==
    \E u \in Senders :
      LET upd == Upd("command", u, "/refresh", None, NoText, None, None)
      IN  /\ HandlerFor(upd) = "refresh_cache"
          /\ Dispatch(upd, TRUE, TRUE, TRUE)

PressOrder ==
    \E u \in Users : \E m \in product_msgs[u] :
      Dispatch(Upd("callback", u, NoText, None, "order", m, m), TRUE, TRUE, TRUE)

PressUseSaved ==
    \E u \in Users : \E p \in prompts[u] :
      \E fwd_ok \in SendOutcomes(TRUE), sum_ok \in SendOutcomes(TRUE) :
        /\ AdminChatHasRoom
        /\ fwd_ok \/ sum_ok
        /\ Dispatch(Upd("callback", u, NoText, None, "use_saved_info", None, p), fwd_ok, sum_ok, TRUE)

PressUpdate ==
    \E u \in Users : \E p \in prompts[u] :
      Dispatch(Upd("callback", u, NoText, None, "update_info", None, p), TRUE, TRUE, TRUE)

PressCancel ==
    \E u \in Users :
      \E p \in prompts[u] \cup (IF cancel_msgs[u] > 0 THEN {None} ELSE {}) :
        Dispatch(Upd("callback", u, NoText, None, "cancel_info", None, p), TRUE, TRUE, TRUE)

-----------------------------------------------------------------------------

Range(seq) == {seq[i] : i \in DOMAIN seq}

ItemNames == <<"A", "B", "C", "D">>

\* The sheet Spec runs with: MaxListing products in stock, none on the way
ListingSheet == <<Header>> \o [i \in 1..MaxListing |-> Row(MinColumns, ItemNames[i], "In-Stock")]

\* A freshly started bot: no session, no message, empty correlation store
FreshBot ==
    /\ user_data = [u \in Senders |-> EmptyUserData]
    /\ admin_customer_mapping = <<>>
    /\ product_msgs = [u \in Senders |-> {}]
    /\ next_message_id = [u \in Senders |-> 1]
    /\ prompts = [u \in Senders |-> {}]
    /\ cancel_msgs = [u \in Senders |-> 0]
    /\ admin_chat = <<>>
    /\ dialog_origin = [u \in Senders |-> None]
    /\ flow = [u \in Senders |-> NoFlow]
    /\ last = [upd |-> NoUpd, handler |-> "none", was |-> "Idle", selected |-> None,
               out |-> <<>>, upserts |-> <<>>, ok |-> TRUE, fetches |-> 0, raised |-> FALSE]
    /\ clock = 0
    /\ running = {}
    /\ entered = [u \in Senders |-> <<>>]

\* Every image downloads and the profile database answers
Reliable ==
    /\ image_fetch = [n \in Range(ItemNames) |-> "ok"]
    /\ profile_store = "ok"

Init ==
    /\ admin_chat_id \in {None, AdminId}
    /\ profiles \in {{SavedProfile(u) : u \in S} : S \in SUBSET Users}
    /\ FreshBot
    /\ Reliable
    /\ sheets_service = NewService
    /\ sheet = ListingSheet
    /\ source = "ok"
    /\ now = 0
    /\ call = NoCall

Next ==
    \/ CustomerText
    \/ OperatorTextReply
    \/ MediaReply
    \/ RefreshCommand
    \/ PressOrder
    \/ PressUseSaved
    \/ PressUpdate
    \/ PressCancel

Spec == Init /\ [][Next]_vars

-----------------------------------------------------------------------------
(* CatalogSpec: the service object under a source that may stop answering, *)
(* a sheet that is edited, and a clock that advances                       *)

CatalogStatuses == KnownStatuses \cup {"Sold Out"}

SheetChoices ==
    { <<Header>>,
      ListingSheet,
      <<Header, Row(MinColumns, "A", "On The Way"), Row(MinColumns, "C", "In-Stock")>> }

Lookup ==
    \E status \in CatalogStatuses :
      LET g == get_products_by_status(sheets_service, status)
      IN  /\ sheets_service' = g.svc
          /\ call' = [op |-> "get_products_by_status", status |-> status,
                      before |-> sheets_service, at |-> now,
                      fetches |-> g.fetches,
                      failed |-> g.fetches > 0 /\ source # "ok",
                      products |-> g.products, ret |-> Dict(NoGroups)]
          /\ UNCHANGED <<sheet, source, now, bot_vars>>

ForceRefresh ==
    LET g == force_refresh(sheets_service)
    IN  /\ sheets_service' = g.svc
        /\ call' = [op |-> "refresh_cache", status |-> NoText,
                    before |-> sheets_service, at |-> now,
                    fetches |-> g.fetches,
                    failed |-> source # "ok",
                    products |-> g.products, ret |-> Dict(NoGroups)]
        /\ UNCHANGED <<sheet, source, now, bot_vars>>

Tick ==
    /\ now < MaxTime
    /\ now' = now + 1
    /\ UNCHANGED <<sheets_service, sheet, source, call, bot_vars>>

SourceChanges ==
    /\ source' \in {"ok", "down"} \ {source}
    /\ UNCHANGED <<sheets_service, sheet, now, call, bot_vars>>

SheetEdited ==
    /\ sheet' \in SheetChoices \ {sheet}
    /\ UNCHANGED <<sheets_service, source, now, call, bot_vars>>

CatalogInit ==
    /\ admin_chat_id = AdminId
    /\ profiles = {}
    /\ FreshBot
    /\ Reliable
    /\ sheets_service = NewService
    /\ sheet \in SheetChoices
    /\ source \in {"ok", "down"}
    /\ now = 0
    /\ call = NoCall

CatalogNext ==
    \/ Lookup
    \/ ForceRefresh
    \/ Tick
    \/ SourceChanges
    \/ SheetEdited

CatalogSpec == CatalogInit /\ [][CatalogNext]_vars

-----------------------------------------------------------------------------
(* ListingSpec: customers browse sheets whose images may fail to download  *)

ListingSheets ==
    SheetChoices \cup
    { <<Header, Row(MinColumns, "B", "In-Stock"), Row(MinColumns, "A", "In-Stock")>> }

\* The images of the first two items may fail, the others download
ImageChoices ==
    { f \in [Range(ItemNames) -> ImageOutcomes] :
        \A n \in Range(ItemNames) \ {"A", "B"} : f[n] = "ok" }

ListingInit ==
    /\ admin_chat_id = AdminId
    /\ profiles = {}
    /\ FreshBot
    /\ image_fetch \in ImageChoices
    /\ profile_store = "ok"
    /\ sheets_service = NewService
    /\ sheet \in ListingSheets
    /\ source = "ok"
    /\ now = 0
    /\ call = NoCall

ListingNext == CustomerText \/ RefreshCommand

ListingSpec == ListingInit /\ [][ListingNext]_vars

------------------------------------------------------------------------------
(* LoopSpec: the application takes updates from its queue and runs their   *)
(* handlers; an update's handler starts, runs and ends                     *)

ConcurrentUpdates_on == TRUE

\* Application.builder().token(token).build() sets no concurrent_updates:
\* the next update is processed when the handler of the previous one is done
ConcurrentUpdates == FALSE

\* The updates that may arrive now: a text of a customer, a press on a
\* listed product
Arrivals ==
    { Upd("text", u, text, None, NoText, None, None) : u \in Users, text \in Texts }
    \cup UNION { { Upd("callback", u, NoText, None, "order", m, m) : m \in product_msgs[u] }
                 : u \in Users }

BeginUpdate ==
    \E upd \in Arrivals :
      /\ ConcurrentUpdates \/ running = {}
      /\ upd \notin running
      /\ clock + Cardinality(running) < MaxEvents
      /\ (upd.kind = "text" /\ Browses(upd.user, upd.text)) =>
           next_message_id[upd.user] + Listed(StatusOf(upd.text)) - 1 <= MaxMsgId
      /\ running' = running \cup {upd}
      /\ UNCHANGED <<admin_chat_id, user_data, profiles, admin_customer_mapping, product_msgs,
                     next_message_id, prompts, cancel_msgs, admin_chat, dialog_origin, flow,
                     last, clock, sheets_service, sheet, source, now, call,
                     image_fetch, profile_store, entered>>

EndUpdate ==
    \E upd \in running :
      /\ (upd.kind = "text" /\ Completes(upd.user)) => AdminChatHasRoom
      /\ Dispatch(upd, TRUE, TRUE, TRUE)

LoopInit ==
    /\ admin_chat_id = AdminId
    /\ profiles \in {{SavedProfile(u) : u \in S} : S \in SUBSET Users}
    /\ FreshBot
    /\ Reliable
    /\ sheets_service = NewService
    /\ sheet = ListingSheet
    /\ source = "ok"
    /\ now = 0
    /\ call = NoCall

LoopNext == BeginUpdate \/ EndUpdate

LoopSpec == LoopInit /\ [][LoopNext]_vars

------------------------------------------------------------------------------
(* FaultSpec: customers register while the profile database comes and goes *)

ProfileStoreChanges ==
    /\ profile_store' \in {"ok", "down"} \ {profile_store}
    /\ UNCHANGED <<admin_chat_id, user_data, profiles, admin_customer_mapping, product_msgs,
                   next_message_id, prompts, cancel_msgs, admin_chat, dialog_origin, flow,
                   last, clock, sheets_service, sheet, source, now, call,
                   image_fetch, running, entered>>

FaultInit ==
    /\ admin_chat_id = AdminId
    /\ profiles = {}
    /\ FreshBot
    /\ Reliable
    /\ sheets_service = NewService
    /\ sheet = ListingSheet
    /\ source = "ok"
    /\ now = 0
    /\ call = NoCall

FaultNext == CustomerText \/ PressOrder \/ PressCancel \/ ProfileStoreChanges

FaultSpec == FaultInit /\ [][FaultNext]_vars

------------------------------------------------------------------------------
(* RunbotSpec: the standalone bot of runbot.py; an order press forwards    *)
(* the product to the operator at once, there is no registration dialog    *)

\* handle_order_callback of runbot.py. Every edit_message_reply_markup of
\* one run is the same request on the same message and has the outcome
\* edit_ok; a call that fails inside the try block skips to the except
\* clause, a call that fails outside it, or in the except clause, ends the run
runbot_handle_order_callback(upd, fwd_ok, sum_ok, edit_ok) ==
    LET chat_id == upd.user
        r == Same(upd.user)
        forward == Msg("forward", admin_chat_id, upd.message_id, chat_id, NoText)
        summary == Msg("order_request", admin_chat_id, None, chat_id, NoText)
        to_admin == IF ~fwd_ok THEN <<>>
                    ELSE IF ~sum_ok THEN <<forward>>
                    ELSE <<forward, summary>>
        unbuttoned == r.product_msgs \ {upd.message_id}
    IN
    IF TruthyId(admin_chat_id)
    THEN IF fwd_ok /\ sum_ok /\ edit_ok
         THEN [r EXCEPT !.admin_chat = r.admin_chat \o to_admin,
                        !.product_msgs = unbuttoned,
                        !.out = to_admin \o <<Msg("order_request_sent", chat_id, None, None, NoText)>>]
         ELSE IF edit_ok
         THEN [r EXCEPT !.admin_chat = r.admin_chat \o to_admin,
                        !.product_msgs = unbuttoned,
                        !.ok = FALSE,
                        !.out = to_admin \o <<Msg("contact_directly", chat_id, None, None, NoText)>>]
         ELSE Raised([r EXCEPT !.admin_chat = r.admin_chat \o to_admin,
                               !.ok = FALSE,
                               !.out = to_admin])
    ELSE IF edit_ok
         THEN [r EXCEPT !.product_msgs = unbuttoned,
                        !.out = <<Msg("contact_to_order", chat_id, None, None, NoText)>>]
         ELSE Raised(r)

\* handle_message of runbot.py for a browse label: the product messages it
\* listed before are deleted and the products of the status are sent
RunbotBrowse ==
    \E u \in Users, text \in {IN_STOCK_LABEL, PRE_ORDER_LABEL} :
      LET g == get_products_by_status(sheets_service, StatusOf(text))
          n == Len(g.products)
          listed == next_message_id[u] .. next_message_id[u] + n - 1
      IN  /\ clock < MaxEvents
          /\ next_message_id[u] + n - 1 <= MaxMsgId
          /\ clock' = clock + 1
          /\ sheets_service' = g.svc
          /\ product_msgs' = [product_msgs EXCEPT ![u] = listed]
          /\ next_message_id' = [next_message_id EXCEPT ![u] = @ + n]
          /\ last' = [upd |-> Upd("text", u, text, None, NoText, None, None),
                      handler |-> "runbot.handle_message", was |-> "Idle", selected |-> None,
                      out |-> [i \in 1..n |-> Msg("product", u, next_message_id[u] + i - 1, None,
                                                  g.products[i].name)],
                      upserts |-> <<>>, ok |-> TRUE, fetches |-> g.fetches, raised |-> FALSE]
          /\ UNCHANGED <<admin_chat_id, user_data, profiles, admin_customer_mapping, prompts,
                         cancel_msgs, admin_chat, dialog_origin, flow, sheet, source, now, call,
                         image_fetch, profile_store, running, entered>>

\* A press on the order button of a product message the customer has; the
\* edit that removes the button fails when the button is already removed
RunbotPressOrder ==
    \E u \in Users, m \in 1..MaxMsgId :
      \E fwd_ok \in SendOutcomes(TRUE), sum_ok \in SendOutcomes(TRUE), edit_ok \in BOOLEAN :
        LET upd == Upd("callback", u, NoText, None, "order", m, m)
            res == runbot_handle_order_callback(upd, fwd_ok, sum_ok, edit_ok)
        IN  /\ clock < MaxEvents
            /\ m < next_message_id[u]
            /\ m \notin product_msgs[u] => ~edit_ok
            /\ AdminChatHasRoom
            /\ clock' = clock + 1
            /\ product_msgs' = [product_msgs EXCEPT ![u] = res.product_msgs]
            /\ admin_chat' = res.admin_chat
            /\ last' = [upd |-> upd, handler |-> "runbot.handle_order_callback",
                        was |-> "Idle", selected |-> None, out |-> res.out,
                        upserts |-> <<>>, ok |-> res.ok, fetches |-> 0, raised |-> res.raised]
            /\ UNCHANGED <<admin_chat_id, user_data, profiles, admin_customer_mapping,
                           next_message_id, prompts, cancel_msgs, dialog_origin, flow,
                           sheets_service, sheet, source, now, call,
                           image_fetch, profile_store, running, entered>>

RunbotNext == RunbotBrowse \/ RunbotPressOrder

RunbotSpec == Init /\ [][RunbotNext]_vars

------------------------------------------------------------------------------
(* AdminSpec: customers order while the administrative site, served by    *)
(* the thread started next to the bot, deletes saved profiles               *)

\* The delete action of UserProfileAdmin: the row of one user is removed
AdminDeletesProfile ==
    \E row \in profiles :
      /\ profiles' = profiles \ {row}
      /\ UNCHANGED <<admin_chat_id, user_data, admin_customer_mapping, product_msgs,
                     next_message_id, prompts, cancel_msgs, admin_chat, dialog_origin, flow,
                     last, clock, sheets_service, sheet, source, now, call,
                     image_fetch, profile_store, running, entered>>

AdminInit ==
    /\ admin_chat_id = AdminId
    /\ profiles \in {{SavedProfile(u) : u \in S} : S \in SUBSET Users}
    /\ FreshBot
    /\ Reliable
    /\ sheets_service = NewService
    /\ sheet = ListingSheet
    /\ source = "ok"
    /\ now = 0
    /\ call = NoCall

AdminNext == CustomerText \/ PressOrder \/ PressUseSaved \/ AdminDeletesProfile

AdminSpec == AdminInit /\ [][AdminNext]_vars

------------------------------------------------------------------------------
(* ParseSpec: _fetch_all_products applied to every sheet of at most        *)
(* MaxRows data rows                                                       *)

RowValues ==
    { Row(len, name, status) :
        len \in {MinColumns - 1, MinColumns},
        name \in {"", " ", "A", "B"},
        status \in {"In-Stock", " In-Stock ", "On The Way", "Sold Out"} }

DataRows == UNION { [1..n -> RowValues] : n \in 0..MaxRows }

FetchAll ==
    /\ call = NoCall
    /\ call' = [NoCall EXCEPT !.op = "fetch_all_products", !.fetches = 1,
                              !.ret = fetch_all_products(sheets_service).ret]
    /\ UNCHANGED <<sheets_service, sheet, source, now, bot_vars>>

ParseInit ==
    /\ admin_chat_id = AdminId
    /\ profiles = {}
    /\ FreshBot
    /\ Reliable
    /\ sheets_service = NewService
    /\ sheet \in {<<>>} \cup { <<Header>> \o rows : rows \in DataRows }
    /\ source = "ok"
    /\ now = 0
    /\ call = NoCall

ParseNext == FetchAll

ParseSpec == ParseInit /\ [][ParseNext]_vars

-----------------------------------------------------------------------------
(* StoreSpec: record and the operator's lookup over every message id up to *)
(* MaxStoreIds and every customer id, zero included                        *)

CustomerIds == {0} \cup Users

StoreRecord ==
    \E m \in 1..MaxStoreIds, c \in CustomerIds :
      /\ admin_customer_mapping' =
           RecordMapping(admin_customer_mapping, m, [SavedProfile(c) EXCEPT !.telegram_id = c])
      /\ last' = [upd |-> Upd("record", c, NoText, None, NoText, m, None),
                  handler |-> "send_order_to_admin", was |-> "Idle", selected |-> None,
                  out |-> <<>>, upserts |-> <<>>, ok |-> TRUE, fetches |-> 0, raised |-> FALSE]
      /\ UNCHANGED <<admin_chat_id, user_data, profiles, product_msgs, next_message_id,
                     prompts, cancel_msgs, admin_chat, dialog_origin, flow, clock,
                     sheets_service, sheet, source, now, call,
                     image_fetch, profile_store, running, entered>>

StoreReply ==
    \E reply_to \in 1..(MaxStoreIds + 1), relay_ok \in BOOLEAN :
      LET upd == Upd("media", AdminId, NoText, reply_to, NoText, None, None)
      IN  /\ HandlerFor(upd) = "handle_admin_reply"
          /\ Dispatch(upd, TRUE, TRUE, relay_ok)

StoreInit ==
    /\ admin_chat_id = AdminId
    /\ profiles = {}
    /\ FreshBot
    /\ Reliable
    /\ sheets_service = NewService
    /\ sheet = ListingSheet
    /\ source = "ok"
    /\ now = 0
    /\ call = NoCall

StoreNext ==
    \/ StoreRecord
    \/ StoreReply

StoreSpec == StoreInit /\ [][StoreNext]_vars

-----------------------------------------------------------------------------
(* Claims *)

Kinds(out, kind) == {i \in DOMAIN out : out[i].kind = kind}

ToOperator(out) == {i \in DOMAIN out : out[i].to = admin_chat_id}

\* C1: for a user with no saved profile and an idle session, an order press
\* followed by that user's next three text messages t1, t2, t3 leaves the
\* session Idle, and the only profile upsert of the four updates is the row
\* keyed by the user's id with name t1, phone t2, address t3.
C1_RegistrationUpsertsOnce ==
    \A u \in Users :
      flow[u].stage = 4 =>
        /\ Mode(user_data[u]) = "Idle"
        /\ flow[u].upserts = << [telegram_id |-> u, name |-> flow[u].texts[1],
                                 phone |-> flow[u].texts[2], address |-> flow[u].texts[3]] >>

C1_Witness ==
    \E u \in Users :
      /\ flow[u].stage = 4
      /\ flow[u].texts[1] # flow[u].texts[2]
      /\ flow[u].texts[2] # flow[u].texts[3]

\* C2: a cancel press handled while the session is CollectingName,
\* CollectingPhone or CollectingAddress leaves the session Idle, writes no
\* profile (the table is unchanged), sends nothing to the operator and
\* leaves the correlation store unchanged.
C2_CancelHasNoSideEffect ==
    [][\A u \in Users :
         (/\ last'.upd.user = u
          /\ last'.upd.data = "cancel_info"
          /\ Mode(user_data[u]) \in Collecting)
         => /\ Mode(user_data'[u]) = "Idle"
            /\ last'.upserts = <<>>
            /\ profiles' = profiles
            /\ ToOperator(last'.out) = {}
            /\ admin_chat' = admin_chat
            /\ admin_customer_mapping' = admin_customer_mapping]_vars

C2_Witness ==
    /\ last.upd.data = "cancel_info"
    /\ last.was = "CollectingPhone"
    /\ ProfileOf(profiles, last.upd.user) # NoProfile

\* C3: an operator's text reply to a message whose id is in the correlation
\* store, routed through the registered handlers, sends exactly one message
\* to the mapped customer (the relayed text), none to any other customer, and
\* a delivery confirmation to the operator.
C3_TextReplyIsRelayed ==
    (/\ last.upd.kind = "text"
     /\ last.upd.user = admin_chat_id
     /\ last.upd.reply_to \in DOMAIN admin_customer_mapping)
    => LET customer == admin_customer_mapping[last.upd.reply_to]
       IN  /\ \E i \in DOMAIN last.out :
                /\ last.out[i] = Msg("relay", customer, None, admin_chat_id, last.upd.text)
                /\ \A j \in DOMAIN last.out : last.out[j].to \in Users => j = i
           /\ \E i \in DOMAIN last.out : last.out[i].kind = "relay_sent"

\* C4: when the operator-reply handler runs for an update that does not come
\* from the configured operator, it sends nothing (to customers or operator)
\* and leaves the correlation store unchanged, whatever message was replied to.
C4_NonOperatorReplyIgnored ==
    [][(/\ last'.handler = "handle_admin_reply"
        /\ last'.upd.user # admin_chat_id)
       => /\ last'.out = <<>>
          /\ admin_customer_mapping' = admin_customer_mapping]_vars

C4_Witness ==
    /\ last.handler = "handle_admin_reply"
    /\ last.upd.user \in Users
    /\ TruthyId(admin_chat_id)
    /\ last.upd.reply_to \in DOMAIN admin_customer_mapping

C6_MappingIsDeliveredSummaries ==
    /\ DOMAIN admin_customer_mapping = Kinds(admin_chat, "summary")
    /\ \A m \in DOMAIN admin_customer_mapping :
         admin_customer_mapping[m] = admin_chat[m].trigger

C6_Witness ==
    \E m1, m2 \in DOMAIN admin_customer_mapping :
      /\ m1 # m2
      /\ admin_customer_mapping[m1] = last.upd.user
      /\ last.upd.data = "use_saved_info"
      /\ Kinds(admin_chat, "forward") # {}

\* C7: every summary message sent to the operator is immediately preceded, in
\* the same handler run, by the forward of the product message the customer
\* selected for that order: the one whose order button led to the pressed
\* decision prompt, or to the registration dialog being completed.
C7_SummaryFollowsSelectedProduct ==
    \A i \in Kinds(last.out, "summary") :
      /\ i > 1
      /\ last.out[i - 1] = Msg("forward", admin_chat_id, last.selected, last.upd.user, NoText)

\* C8: with an operator configured and no send failing, an order press on a
\* listed product by a profile-less idle user followed by name, phone and
\* address yields exactly one upsert with those values, exactly one forward
\* (of the pressed product) and one summary to the operator, exactly one new
\* correlation entry (summary id to the user) and one completion confirmation.
C8_EndToEndOrder ==
    \A u \in Users :
      (flow[u].stage = 4 /\ flow[u].ok /\ TruthyId(admin_chat_id)) =>
        LET out == flow[u].out
        IN  /\ flow[u].upserts = << [telegram_id |-> u, name |-> flow[u].texts[1],
                                     phone |-> flow[u].texts[2], address |-> flow[u].texts[3]] >>
            /\ Cardinality(Kinds(out, "forward")) = 1
            /\ \A i \in Kinds(out, "forward") :
                 out[i] = Msg("forward", admin_chat_id, flow[u].pressed, u, NoText)
            /\ Cardinality(Kinds(out, "summary")) = 1
            /\ \A i \in Kinds(out, "summary") : flow[u].corr = {<<out[i].ref, u>>}
            /\ Cardinality(Kinds(out, "order_done")) = 1
            /\ \A i \in Kinds(out, "order_done") : out[i].to = u

C8_Witness ==
    \E u \in Users :
      /\ flow[u].stage = 4 /\ flow[u].ok /\ TruthyId(admin_chat_id)
      /\ admin_chat # <<>>
      /\ flow[u].texts[1] # flow[u].texts[3]

\* C9: after a "reuse saved profile" press has been handled the user's
\* session is Idle, whatever state it was in when the press arrived.
C9_ReuseLeavesIdle ==
    (last.upd.kind = "callback" /\ last.upd.data = "use_saved_info")
    => Mode(user_data[last.upd.user]) = "Idle"

\* C10: right after an address completion or a cancellation the session's
\* scratch fields (pending name, phone, address) hold no value.
C10_ScratchDropped ==
    \A u \in Users :
      (/\ last.upd.user = u
       /\ \/ last.upd.data = "cancel_info"
          \/ last.upd.kind = "text" /\ last.was = "CollectingAddress")
      => /\ user_data[u].user_name = NoText
         /\ user_data[u].user_phone = NoText
         /\ user_data[u].user_address = NoText

\* C11: a reply of the operator to a recorded message id whose entry maps to
\* customer id 0 is relayed to customer 0, and no "customer not found" notice
\* is sent: only an unrecorded id counts as not found.
C11_ZeroCustomerIsRelayed ==
    (/\ last.handler = "handle_admin_reply"
     /\ last.upd.user = admin_chat_id
     /\ last.ok
     /\ last.upd.reply_to \in DOMAIN admin_customer_mapping
     /\ admin_customer_mapping[last.upd.reply_to] = 0)
    => /\ \E i \in Kinds(last.out, "relay") : last.out[i].to = 0
       /\ Kinds(last.out, "customer_not_found") = {}

\* C12: the correlation store only grows: every entry present before a step
\* is present after it with the same customer, whatever the event (cancel,
\* completion, operator reply, refresh, another order).
C12_StoreOnlyGrows ==
    [][\A m \in DOMAIN admin_customer_mapping :
         /\ m \in DOMAIN admin_customer_mapping'
         /\ admin_customer_mapping'[m] = admin_customer_mapping[m]]_vars

C12_Witness ==
    /\ Cardinality(DOMAIN admin_customer_mapping) = 2
    /\ \A m \in DOMAIN admin_customer_mapping : admin_customer_mapping[m] = last.upd.user
    /\ last.upd.data = "use_saved_info"
    /\ last.ok

\* C13: right after record(m, c) a lookup of m returns c, for every message
\* id m and customer id c (zero included, m recorded before or not); a lookup
\* of an id that has no entry returns None.
C13_RoundTrip ==
    /\ last.upd.kind = "record" =>
         LookupCustomer(admin_customer_mapping, last.upd.message_id) = last.upd.user
    /\ \A m \in 1..(MaxStoreIds + 1) :
         m \notin DOMAIN admin_customer_mapping =>
           LookupCustomer(admin_customer_mapping, m) = None

C13_Witness ==
    /\ last.upd.kind = "record"
    /\ last.upd.user = 0
    /\ Cardinality(DOMAIN admin_customer_mapping) > 1
    /\ clock > 0

\* C14: with no operator channel configured nothing is ever forwarded or
\* sent to an operator and the correlation store stays empty; every
\* forward-to-operator step (address completion, reuse press) sends the
\* customer the static contact instruction instead.
C14_NoOperatorNoDelivery ==
    admin_chat_id = None =>
      /\ admin_chat = <<>>
      /\ admin_customer_mapping = <<>>
      /\ Kinds(last.out, "forward") \cup Kinds(last.out, "summary") = {}
      /\ (\/ last.upd.data = "use_saved_info"
          \/ last.upd.kind = "text" /\ last.was = "CollectingAddress")
         => /\ Cardinality(Kinds(last.out, "contact_instruction")) = 1
            /\ \A i \in Kinds(last.out, "contact_instruction") : last.out[i].to = last.upd.user

C14_Witness ==
    /\ admin_chat_id = None
    /\ last.upd.kind = "text" /\ last.was = "CollectingAddress"
    /\ Kinds(last.out, "contact_instruction") # {}
    /\ profiles # {}

\* C15: when the product forward or the summary send fails, the handler
\* still runs to its end (the customer's closing confirmation is sent), the
\* customer is sent the contact-the-operator-directly message, no summary is
\* delivered and the correlation store is left as it was.
C15_SendFailureIsContained ==
    [][(/\ last'.handler \in {"handle_message", "handle_order_callback"}
        /\ ~last'.ok)
       => LET out == last'.out
              u == last'.upd.user
          IN  /\ \E i \in Kinds(out, "error_contact") : out[i].to = u
              /\ Kinds(out, "summary") = {}
              /\ out[Len(out)].kind \in {"order_done", "edit_order_done"}
              /\ admin_customer_mapping' = admin_customer_mapping]_vars

C15_Witness ==
    /\ last.upd.data = "use_saved_info"
    /\ ~last.ok
    /\ Kinds(last.out, "forward") # {}
    /\ admin_customer_mapping # <<>>

\* C16: when relaying an operator reply to the mapped customer fails, the
\* handler ends normally having sent exactly one message, the failure notice
\* with the failure reason, to the operator: no delivery confirmation, and
\* the correlation store is unchanged.
C16_RelayFailureReported ==
    [][(/\ last'.handler = "handle_admin_reply"
        /\ ~last'.ok)
       => /\ last'.out = << Msg("relay_failed", admin_chat_id, None, None, "str(e)") >>
          /\ admin_customer_mapping' = admin_customer_mapping]_vars

C16_Witness ==
    /\ last.handler = "handle_admin_reply"
    /\ ~last.ok
    /\ last.upd.reply_to \in DOMAIN admin_customer_mapping

\* C17: a /refresh command refetches the catalog only when its sender is the
\* configured operator; from any other sender, whatever the configuration
\* (an operator configured or none), the only reply is the rejection notice,
\* no fetch is made and the cache is left as it was.
C17_RefreshOnlyByOperator ==
    [][last'.handler = "refresh_cache" =>
         IF last'.upd.user = admin_chat_id
         THEN last'.fetches = 1
         ELSE /\ last'.out = << Msg("only_admin", last'.upd.user, None, None, NoText) >>
              /\ last'.fetches = 0
              /\ sheets_service' = sheets_service]_vars

SheetRows == IF sheet = <<>> THEN <<>> ELSE Tail(sheet)

Qualifies(row) == row.len >= MinColumns /\ Strip(row.name) # ""

Entries(rows) == [i \in DOMAIN rows |-> Product(rows[i])]

GroupOf(ret, st) == IF st \in DOMAIN ret.groups THEN ret.groups[st] ELSE <<>>

\* The data rows with enough cells and a name whose status cell reads st
Selected(st) ==
    LET Test(row) == Qualifies(row) /\ Strip(row.status) = st
    IN  SelectSeq(SheetRows, Test)

\* C18 as claimed: every data row with at least the minimum number of cells
\* and a non-empty name is in the group named by its status cell and in no
\* other, in sheet order; the other rows are in no group.
C18_EveryRowGrouped ==
    call.op = "fetch_all_products" =>
      \A st \in {Strip(row.status) : row \in RowValues} :
        GroupOf(call.ret, st) = Entries(Selected(st))

\* C18 as amended: the same for the rows whose status cell reads "In-Stock"
\* or "On The Way"; there is no other group, so a row with any other status
\* is in no group.
C18_KnownStatusRowsGrouped ==
    call.op = "fetch_all_products" =>
      /\ \A st \in KnownStatuses : GroupOf(call.ret, st) = Entries(Selected(st))
      /\ DOMAIN call.ret.groups \subseteq KnownStatuses

C18_Witness ==
    /\ call.op = "fetch_all_products"
    /\ Len(GroupOf(call.ret, "In-Stock")) = 2
    /\ call.ret.groups["In-Stock"][1].name # call.ret.groups["In-Stock"][2].name
    /\ \E i \in DOMAIN SheetRows : SheetRows[i].status = " In-Stock "

\* C19: a lookup made less than cache_duration after the last successful
\* fetch makes no fetch; a lookup made when there is no snapshot yet, or when
\* the snapshot's age has reached cache_duration, makes exactly one.
C19_FreshCacheIsNotRefetched ==
    call.op = "get_products_by_status" =>
      LET stamp == call.before.cache_timestamp
      IN  IF stamp # None /\ call.at - stamp < cache_duration
          THEN call.fetches = 0
          ELSE call.fetches = 1

C19_Witness ==
    /\ call.op = "get_products_by_status"
    /\ call.before.cache_timestamp # None
    /\ call.at - call.before.cache_timestamp = cache_duration
    /\ call.fetches = 1
    /\ ~call.failed

\* C20: a call whose fetch finds the source down returns normally and leaves
\* snapshot and timestamp as they were; a lookup then returns the previous
\* snapshot's entries for the requested status, which is the empty sequence
\* when no fetch ever succeeded.
C20_FailedFetchKeepsSnapshot ==
    call.failed =>
      /\ sheets_service.cache = call.before.cache
      /\ sheets_service.cache_timestamp = call.before.cache_timestamp
      /\ call.op = "get_products_by_status" =>
           /\ call.products = GroupOf(Dict(call.before.cache), call.status)
           /\ call.before.cache_timestamp = None => call.products = <<>>

C20_Witness ==
    /\ call.op = "get_products_by_status"
    /\ call.failed
    /\ call.products # <<>>
    /\ call.before.worksheet

\* The messages of a listing that show a product
Items(out) ==
    LET Shows(msg) == msg.kind \in {"product", "product_text"}
    IN  SelectSeq(out, Shows)

IsBrowse(l) ==
    /\ l.handler = "handle_message"
    /\ l.upd.kind = "text"
    /\ l.was = "Idle"
    /\ l.upd.text \in {IN_STOCK_LABEL, PRE_ORDER_LABEL}

\* C21: a browse of a status the catalog has no entry for answers with
\* exactly one "none available" notice and no product message; a browse of a
\* status with N >= 1 entries answers with exactly one message per entry, in
\* catalog order, and ends with a summary stating the count N.
C21_BrowseListsEveryEntry ==
    IsBrowse(last) =>
      LET entries == Entries(Selected(StatusOf(last.upd.text)))
          n == Len(entries)
          items == Items(last.out)
          final == last.out[Len(last.out)]
      IN  IF n = 0
          THEN /\ Len(last.out) = 1
               /\ last.out[1].kind = "none_available"
          ELSE /\ Len(items) = n
               /\ \A i \in 1..n : items[i].text = entries[i].name
               /\ Kinds(last.out, "none_available") = {}
               /\ final.kind = "sent_count"
               /\ final.ref = n
               /\ Kinds(last.out, "sent_count") = {Len(last.out)}

C21_Witness ==
    /\ IsBrowse(last)
    /\ Len(Items(last.out)) = 2
    /\ Items(last.out)[1].text = "B"
    /\ Items(last.out)[2].text = "A"
    /\ last.out[Len(last.out)].kind = "sent_count"

\* C22: an image download that fails (a status other than 200, a timeout)
\* does not abort the listing: the entry is sent as one text message that
\* carries the order button, every later entry is sent too, and the summary
\* states the full count.
C22_ImageFailureKeepsListing ==
    IsBrowse(last) =>
      LET entries == Entries(Selected(StatusOf(last.upd.text)))
          n == Len(entries)
          items == Items(last.out)
      IN  (\E i \in 1..n : image_fetch[entries[i].name] \in {"non200", "timeout"}) =>
            /\ Len(items) = n
            /\ \A i \in 1..n :
                  /\ items[i].text = entries[i].name
                  /\ items[i].ref \in product_msgs[last.upd.user]
                  /\ image_fetch[entries[i].name] \in {"non200", "timeout"} =>
                        items[i].kind = "product_text"
            /\ last.out[Len(last.out)].kind = "sent_count"
            /\ last.out[Len(last.out)].ref = n

C22_Witness ==
    /\ IsBrowse(last)
    /\ Len(Items(last.out)) = 2
    /\ Items(last.out)[1].kind = "product_text"
    /\ image_fetch[Items(last.out)[1].text] = "timeout"
    /\ Items(last.out)[2].kind = "product"
    /\ last.out[Len(last.out)].ref = 2

\* C23: the events of one user are handled one at a time: while the handler
\* of an update of a user has started and not ended, no handler of another
\* update of that user is running.
C23_OneHandlerPerUser ==
    \A one \in running, other \in running :
      one.user = other.user => one = other

C23_Witness ==
    /\ \E upd \in running : upd.user = last.upd.user /\ upd # last.upd
    /\ Mode(user_data[last.upd.user]) \in Collecting
    /\ clock >= 2

\* C24: sessions are independent: handling an update of one user leaves the
\* session of every other user as it was.
C24_SessionsIndependent ==
    [][clock' # clock =>
         \A other \in Senders :
           other # last'.upd.user => user_data'[other] = user_data[other]]_vars

C24_Witness ==
    /\ last.upd.user = 1
    /\ last.was # Mode(user_data[1])
    /\ Mode(user_data[1]) = "CollectingName"
    /\ Mode(user_data[2]) = "CollectingPhone"

\* C25: when the profile upsert fails at the address step, the failure does
\* not leave the handler and the session is left at a step of the dialog
\* from which the order can still be completed.
C25_UpsertFailureContained ==
    ( /\ last.handler = "handle_message"
      /\ last.was = "CollectingAddress"
      /\ last.upserts = <<>> )
    => /\ ~last.raised
       /\ Mode(user_data[last.upd.user]) \in Collecting

\* The notices runbot.py's order handler sends to the customer
RunbotNotices(out) ==
    Kinds(out, "order_request_sent") \cup Kinds(out, "contact_directly")
      \cup Kinds(out, "contact_to_order")

\* C26: in the standalone bot every order press ends with the customer
\* notified: whatever the outcome of the forward, of the summary and of the
\* edit that removes the button (a second press on a button already removed
\* included), the handler sends exactly one notice and no failure leaves it.
C26_OrderPressAlwaysNotifies ==
    last.handler = "runbot.handle_order_callback" =>
      /\ ~last.raised
      /\ Cardinality(RunbotNotices(last.out)) = 1

\* The update completed an order: the last answer of a registration, or a
\* press on "use saved info"
PlacesOrder(l) ==
    \/ l.handler = "handle_message" /\ l.was = "CollectingAddress"
    \/ l.handler = "handle_order_callback" /\ l.upd.data = "use_saved_info"

OrderAcks(out) == Kinds(out, "order_done") \cup Kinds(out, "edit_order_done")

\* C27: the customer gets the order-completed acknowledgement only for an
\* order whose summary reached the operator and whose correlation entry was
\* recorded; with no operator configured, or when the forward fails, the
\* customer gets the contact instruction and no acknowledgement, on the
\* registration path and on the saved-profile path.
C27_AckOnlyForDeliveredOrder ==
    PlacesOrder(last) =>
      IF /\ Kinds(last.out, "summary") # {}
         /\ \E i \in Kinds(last.out, "summary") : last.out[i].ref \in DOMAIN admin_customer_mapping
      THEN OrderAcks(last.out) # {}
      ELSE /\ OrderAcks(last.out) = {}
           /\ Kinds(last.out, "contact_instruction") \cup Kinds(last.out, "error_contact") # {}

\* C28: in every reachable state the collecting flag and the step agree:
\* collecting_info is true exactly when info_step is one of name, phone,
\* address.
C28_FlagAndStepAgree ==
    \A u \in Senders :
      TruthyFlag(user_data[u].collecting_info)
        <=> user_data[u].info_step \in {"name", "phone", "address"}

C28_Witness ==
    /\ last.was = "CollectingAddress"
    /\ user_data[last.upd.user].collecting_info = "False"
    /\ user_data[last.upd.user].info_step = NoText
    /\ user_data[last.upd.user].user_address = last.upd.text

\* C29: a session at step phone holds the name, and a session at step
\* address holds the name and the phone, each entered after the dialog last
\* asked for the name; so the upsert at the end of the dialog reads no
\* missing field and no value of an earlier, cancelled or restarted dialog.
C29_ScratchIsOfThisDialog ==
    \A u \in Senders :
      LET s == user_data[u]
          e == entered[u]
      IN  /\ s.info_step = "phone" =>
                /\ Len(e) = 1
                /\ s.user_name = e[1]
          /\ s.info_step = "address" =>
                /\ Len(e) = 2
                /\ s.user_name = e[1]
                /\ s.user_phone = e[2]
          /\ (last.upd.user = u /\ last.upserts # <<>>) =>
                /\ Len(e) = 3
                /\ last.upserts = <<[telegram_id |-> u, name |-> e[1], phone |-> e[2],
                                      address |-> e[3]]>>

C29_Witness ==
    \E u \in Users :
      /\ user_data[u].info_step = "address"
      /\ user_data[u].user_name = IN_STOCK_LABEL
      /\ entered[u] = <<IN_STOCK_LABEL, "Mg Mg">>
      /\ SavedProfile(u) \in profiles

ListingKinds == {"loading", "product", "product_text", "none_available", "sent_count"}

\* C30: while a session is collecting, every text of the user is taken by
\* the dialog: it is stored in the scratch field of the current step and
\* the step advances, also when the text is a browse label, and no catalog
\* lookup is made.
C30_DialogTakesEveryText ==
    (last.handler = "handle_message" /\ last.was \in Collecting) =>
      LET s == user_data[last.upd.user]
          text == last.upd.text
      IN  /\ last.fetches = 0
          /\ \A i \in DOMAIN last.out : last.out[i].kind \notin ListingKinds
          /\ last.was = "CollectingName" => s.user_name = text /\ Mode(s) = "CollectingPhone"
          /\ last.was = "CollectingPhone" => s.user_phone = text /\ Mode(s) = "CollectingAddress"
          /\ last.was = "CollectingAddress" => s.user_address = text /\ Mode(s) = "Idle"

C30_Witness ==
    /\ last.handler = "handle_message"
    /\ last.was = "CollectingPhone"
    /\ last.upd.text = PRE_ORDER_LABEL
    /\ user_data[last.upd.user].user_phone = PRE_ORDER_LABEL
    /\ Mode(user_data[last.upd.user]) = "CollectingAddress"

\* C31: a press on "use saved info" handled when the profile store holds no
\* profile of the user (the profile was deleted on the administrative site
\* after the prompt was shown) sends nothing to the operator, adds no
\* correlation entry, and no failure leaves the handler.
C31_ReuseWithoutProfileSendsNothing ==
    [][( /\ clock' # clock
         /\ last'.handler = "handle_order_callback"
         /\ last'.upd.data = "use_saved_info"
         /\ ProfileOf(profiles, last'.upd.user) = NoProfile )
       => /\ admin_chat' = admin_chat
          /\ ToOperator(last'.out) = {}
          /\ admin_customer_mapping' = admin_customer_mapping
          /\ ~last'.raised]_vars

=============================================================================
